---- MODULE Spec2Model ----
\* Model of the qdrant-mcp server: the three tool handlers of
\* src/src/server.ts (qdrant-store, qdrant-find, qdrant-debug), the HTTP
\* client of src/src/client.ts, and the two remote services they talk to
\* (the embedding provider and the vector store).
\*
\* Texts (tool results, error messages) are sequences of string tokens: a
\* template literal becomes the sequence of its literal parts and of its
\* interpolated values, in order.  "text contains s" is "s is one of the
\* tokens".  Each awaited remote call is one step: the step in which the
\* response arrives carries the remote's handling of the request and the
\* handler's continuation up to its next await.
EXTENDS Integers, Sequences, FiniteSets, TLC

VARIABLES
  defaultCollection, \* server.ts:19  QdrantMCPServer.defaultCollection (COLLECTION_NAME)
  now,               \* the wall clock read by Date.now() / new Date()
  collections,       \* the remote vector store: name -> [size, points]
  pc,                \* per invocation: the await it is suspended at
  call,              \* per invocation: the tool called and its arguments
  loc,               \* per invocation: the handler's local variables
  log,               \* per invocation: the remote requests issued so far
  responses,         \* per invocation: the HTTP responses received so far
  caught,            \* per invocation: the error caught by the tool handler's catch
  result             \* per invocation: the CallToolResult returned to the dispatcher

vars == <<defaultCollection, now, collections, pc, call, loc, log,
          responses, caught, result>>

-----------------------------------------------------------------------------
\* Bounds of the model.

MaxClock == 2             \* the clock runs over 1..MaxClock milliseconds

\* Program constants.
SearchLimit == 5          \* server.ts:262 and client.ts:86
ConflictStatus == 409     \* client.ts:50

\* two tool invocations, which may overlap in time
Invocations == {"a", "b"}

Undefined == "<undefined>"           \* a JS undefined argument / unset env var
ArgCollectionNames == {Undefined, "c2"}   \* collection_name arguments
DefaultCollections == {Undefined, "c1"}
VectorNames == {"dense", "sparse"}    \* server.ts:11 VectorNameEnum
ArgVectorNames == {Undefined, "", "dense"}    \* vector_name arguments
Embeddings == {<<1>>, <<1, 2>>}       \* vectors the embedding provider returns
Metadatas == {Undefined, "{\"k\":1}"}

\* JS truthiness of an optional string: undefined and '' are falsy.
Truthy(s) == s # Undefined /\ s # ""

\* a || b on optional strings
Or(a, b) == IF Truthy(a) THEN a ELSE b

Contains(text, tok) == \E k \in DOMAIN text : text[k] = tok

-----------------------------------------------------------------------------
\* Renderings.

Digits == <<"0", "1", "2", "3", "4", "5", "6", "7", "8", "9">>

RECURSIVE IntToString(_)
\* Number.prototype.toString for a non-negative integer
IntToString(n) ==
  IF n < 10 THEN Digits[n + 1]
  ELSE IntToString(n \div 10) \o Digits[(n % 10) + 1]

\* server.ts:210  Date.now().toString()
DateNowToString(t) == IntToString(t)

\* server.ts:215  new Date().toISOString()
ToISOString(t) == "1970-01-01T00:00:00.00" \o IntToString(t) \o "Z"

\* server.ts:282  score.toFixed(4); scores are counted in units of 10^-5
ToFixed4(s) ==
  LET r == (s + 5) \div 10
      f == r % 10000
  IN IntToString(r \div 10000) \o "." \o Digits[(f \div 1000) + 1]
       \o Digits[((f \div 100) % 10) + 1] \o Digits[((f \div 10) % 10) + 1]
       \o Digits[(f % 10) + 1]

RECURSIVE JoinInts(_)
JoinInts(v) ==
  IF Len(v) = 0 THEN ""
  ELSE IF Len(v) = 1 THEN IntToString(v[1])
  ELSE IntToString(v[1]) \o "," \o JoinInts(Tail(v))

\* JSON.stringify of a number[]
StringifyVector(v) == "[" \o JoinInts(v) \o "]"

\* JSON.stringify of a point payload (server.ts:213-220, 289)
StringifyPayload(p) ==
  "{\"information\":\"" \o p.information \o "\",\"stored_at\":\""
    \o p.stored_at \o "\""
    \o (IF p.metadata = Undefined THEN "" ELSE ",\"metadata\":" \o p.metadata)
    \o "}"

\* Object.keys(payload).join(', ')  (server.ts:286, 339)
PayloadKeys(p) ==
  "information, stored_at" \o (IF p.metadata = Undefined THEN "" ELSE ", metadata")

\* Response.statusText of the remote's answer
StatusText(status) ==
  CASE status = 200 -> "OK"
    [] status = 400 -> "Bad Request"
    [] status = 404 -> "Not Found"
    [] status = 409 -> "Conflict"
    [] status = 500 -> "Internal Server Error"
    [] OTHER -> "Unknown"

\* Response.ok
Ok(status) == status >= 200 /\ status <= 299

-----------------------------------------------------------------------------
\* HTTP responses as the client sees them.
\*   rejected : fetch() rejected (no response at all)
\*   status   : Response.status
\*   body     : what Response.json() yields; parseable = FALSE makes it throw.
\*              hasResult says that the body has a result key; result holds
\*              the items found under it, directly (nested = "") or under the
\*              nested key named by nested.

VectorNameRequired == "Wrong input: Collection requires specified vector name in the request"

NoBody ==
  [parseable |-> TRUE, error_message |-> Undefined, status_error |-> Undefined,
   hasResult |-> FALSE, nested |-> "", result |-> <<>>]

\* bodies a failing remote may send
ErrorBodies ==
  { [NoBody EXCEPT !.parseable = FALSE],
    [NoBody EXCEPT !.error_message = "boom"],
    [NoBody EXCEPT !.error_message = "boom", !.status_error = "Not found"],
    [NoBody EXCEPT !.status_error = "Not found"],
    [NoBody EXCEPT !.status_error = VectorNameRequired],
    NoBody }

HttpResponse(status, body) == [rejected |-> FALSE, status |-> status, body |-> body]

FetchRejected == [rejected |-> TRUE, status |-> 0, body |-> NoBody]

\* JSON.stringify of a parsed error body
StringifyBody(b) ==
  "{" \o (IF b.error_message = Undefined THEN ""
          ELSE "\"error\":{\"message\":\"" \o b.error_message \o "\"}")
      \o (IF b.status_error = Undefined THEN ""
          ELSE "\"status\":{\"error\":\"" \o b.status_error \o "\"}")
      \o "}"

\* String.prototype.includes('requires specified vector name') on the texts
\* the model produces
IncludesVectorNameRequired(s) ==
  \/ s = VectorNameRequired
  \/ s = StringifyBody([NoBody EXCEPT !.status_error = VectorNameRequired])

\* outcome of an async function: it returns a value or throws an Error
Return(v) == [threw |-> FALSE, msg |-> <<>>, value |-> v]
Throw(m) == [threw |-> TRUE, msg |-> m, value |-> <<>>]

FetchFailedMessage == <<"fetch failed">>
JsonParseMessage == <<"Unexpected token < in JSON">>

-----------------------------------------------------------------------------
\* src/src/client.ts

\* client.ts:40-48  the request createCollection sends
createCollectionRequest(collectionName, vectorSize) ==
  [op |-> "create", method |-> "PUT",
   endpoint |-> <<"/collections/", collectionName>>,
   body |-> [vectors |-> [size |-> vectorSize, distance |-> "Cosine"]]]

\* createCollection with the bug of ignoring every failure of the request
createCollectionIgnoringFailure(response) == Return(<<>>)

\* createCollection with the bug of accepting the whole 4xx family
createCollectionAccepting4xx(response) ==
  IF response.rejected THEN Throw(FetchFailedMessage)
  ELSE IF ~Ok(response.status) /\ response.status \div 100 # 4
       THEN Throw(<<"Failed to create collection: ", StatusText(response.status)>>)
       ELSE Return(<<>>)

\* createCollection with the bug of treating a conflict as a failure
createCollectionRejectingConflict(response) ==
  IF response.rejected THEN Throw(FetchFailedMessage)
  ELSE IF ~Ok(response.status)
       THEN Throw(<<"Failed to create collection: ", StatusText(response.status)>>)
       ELSE Return(<<>>)

\* client.ts:36-53  createCollection, given the response to its request
createCollection(response) ==
  IF response.rejected THEN Throw(FetchFailedMessage)
  ELSE IF ~Ok(response.status) /\ response.status # ConflictStatus
       THEN Throw(<<"Failed to create collection: ", StatusText(response.status)>>)
       ELSE Return(<<>>)

\* client.ts:56-64  the request upsertPoints sends
upsertPointsRequest(collectionName, points) ==
  [op |-> "upsert", method |-> "PUT",
   endpoint |-> <<"/collections/", collectionName, "/points">>,
   body |-> [points |-> points]]

\* the extraction with the bug of preferring the status error to the message
errorDetailsStatusFirst(response) ==
  IF ~response.body.parseable THEN StatusText(response.status)
  ELSE Or(response.body.status_error,
          Or(response.body.error_message, StringifyBody(response.body)))

\* client.ts:67-76 and 113-122  extraction of the error detail
errorDetails(response) ==
  IF ~response.body.parseable THEN StatusText(response.status)
  ELSE Or(response.body.error_message,
          Or(response.body.status_error, StringifyBody(response.body)))

\* client.ts:55-81  upsertPoints, given the response to its request
upsertPoints(collectionName, response) ==
  IF response.rejected THEN Throw(FetchFailedMessage)
  ELSE IF ~Ok(response.status)
       THEN Throw(<<"Failed to upsert points in collection '", collectionName,
                    "': ", errorDetails(response)>>)
       ELSE Return(<<>>)

\* the body of a search with the bug of dropping the vector name
searchRequestBodyUnnamed(queryVector, limit, vectorName) ==
  [limit |-> limit, with_payload |-> TRUE, vector |-> [array |-> queryVector]]

\* client.ts:89-102  the body searchPoints builds.  The JSON value of the
\* vector field is a plain array, [array |-> v], or an object with the two
\* keys name and vector.
searchRequestBody(queryVector, limit, vectorName) ==
  IF Truthy(vectorName)
  THEN [limit |-> limit, with_payload |-> TRUE,
        vector |-> [name |-> vectorName, vector |-> queryVector]]
  ELSE [limit |-> limit, with_payload |-> TRUE,
        vector |-> [array |-> queryVector]]

\* JSON.stringify(requestBody)  (client.ts:134)
StringifyRequestBody(b) ==
  "{\"limit\":" \o IntToString(b.limit) \o ",\"with_payload\":true,\"vector\":"
    \o (IF DOMAIN b.vector = {"name", "vector"}
        THEN "{\"name\":\"" \o b.vector.name \o "\",\"vector\":"
               \o StringifyVector(b.vector.vector) \o "}"
        ELSE StringifyVector(b.vector.array))
    \o "}"

\* client.ts:104-110  the request searchPoints sends
searchPointsRequest(collectionName, queryVector, limit, vectorName) ==
  [op |-> "search", method |-> "POST",
   endpoint |-> <<"/collections/", collectionName, "/points/search">>,
   body |-> searchRequestBody(queryVector, limit, vectorName)]

VectorNameHint == ". Hint: Try setting a vector name (e.g., \"dense\" or \"sparse\")"

\* the hint with the bug of being appended whether or not a name was given
searchErrorDetailsAlwaysHinting(response, vectorName) ==
  LET d == errorDetails(response)
  IN IF IncludesVectorNameRequired(d) THEN <<d, VectorNameHint>> ELSE <<d>>

\* client.ts:124-131  the hint appended to the error detail
searchErrorDetails(response, vectorName) ==
  LET d == errorDetails(response)
  IN IF IncludesVectorNameRequired(d) /\ ~Truthy(vectorName)
     THEN <<d, VectorNameHint>>
     ELSE <<d>>

\* searchPoints with the bug of rejecting a success body without results
searchPointsRequiringResult(collectionName, queryVector, limit, vectorName, response) ==
  IF response.rejected THEN Throw(FetchFailedMessage)
  ELSE IF ~Ok(response.status)
       THEN Throw(<<"Failed to search points in collection '", collectionName, "': ">>
                  \o searchErrorDetails(response, vectorName)
                  \o <<". Request: ",
                       StringifyRequestBody(
                         searchRequestBody(queryVector, limit, vectorName))>>)
       ELSE IF ~response.body.parseable THEN Throw(JsonParseMessage)
       ELSE IF response.body.hasResult THEN Return(response.body.result)
       ELSE Throw(<<"Invalid search response">>)

\* client.ts:83-140  searchPoints, given the response to its request
searchPoints(collectionName, queryVector, limit, vectorName, response) ==
  IF response.rejected THEN Throw(FetchFailedMessage)
  ELSE IF ~Ok(response.status)
       THEN Throw(<<"Failed to search points in collection '", collectionName, "': ">>
                  \o searchErrorDetails(response, vectorName)
                  \o <<". Request: ",
                       StringifyRequestBody(
                         searchRequestBody(queryVector, limit, vectorName))>>)
       ELSE IF ~response.body.parseable THEN Throw(JsonParseMessage)
       ELSE IF response.body.hasResult THEN Return(response.body.result)
       ELSE Return(<<>>)

-----------------------------------------------------------------------------
\* The remote services.  Each operator yields the set of the answers the
\* service may give to a request, with the store's contents afterwards.  A
\* healthy store answers as the HTTP API of spec section 6 says; any request
\* may also fail in transport or with a server error.

Answer(response, cols) == [response |-> response, collections |-> cols]

TransportFailures(cols) ==
  {Answer(FetchRejected, cols), Answer(HttpResponse(500, NoBody), cols)}

\* the embedding provider: a vector, or a failure with the provider's message
EmbeddingAnswers ==
  {Return(v) : v \in Embeddings} \cup {Throw(<<"Connection error.">>)}

\* the store at the start: empty, or holding a collection written earlier
NoCollections == [c \in {} |-> [size |-> 0, points |-> {}]]

OldPoint(id, vector) ==
  [id |-> id, vector |-> vector,
   payload |-> [information |-> "old " \o id, stored_at |-> ToISOString(0),
                metadata |-> Undefined]]

OldCollections ==
  [c \in {"c2"} |->
     [size |-> 2, points |-> {OldPoint("p1", <<1, 2>>), OldPoint("p2", <<2, 1>>)}]]

\* cosine similarity of the vectors of the model, in units of 10^-5
CosineScore(q, v) == IF q = v THEN 100000 ELSE 80000

\* PUT /collections/{name}
RemoteCreate(cols, request) ==
  LET name == request.endpoint[2]
      created == [c \in DOMAIN cols \cup {name} |->
                    IF c = name
                    THEN [size |-> request.body.vectors.size, points |-> {}]
                    ELSE cols[c]]
  IN (IF name \in DOMAIN cols
      THEN {Answer(HttpResponse(ConflictStatus, NoBody), cols)}
      ELSE {Answer(HttpResponse(200, NoBody), created)})
     \cup TransportFailures(cols)
     \cup {Answer(HttpResponse(400, NoBody), cols)}

\* points of ps written over the points of old that have the same id
Overwrite(old, ps) ==
  {p \in old : \A k \in DOMAIN ps : ps[k].id # p.id} \cup {ps[k] : k \in DOMAIN ps}

\* PUT /collections/{name}/points
RemoteUpsert(cols, request) ==
  LET name == request.endpoint[2]
      ps == request.body.points
  IN (IF name \notin DOMAIN cols
      THEN {Answer(HttpResponse(404, [NoBody EXCEPT !.status_error = "Not found"]), cols)}
      ELSE IF \E k \in DOMAIN ps : Len(ps[k].vector) # cols[name].size
      THEN {Answer(HttpResponse(400, [NoBody EXCEPT !.status_error = "Wrong input: Vector dimension error"]), cols)}
      ELSE {Answer(HttpResponse(200, NoBody),
                   [cols EXCEPT ![name].points = Overwrite(@, ps)])})
     \cup TransportFailures(cols)
     \cup {Answer(HttpResponse(500, b), cols) : b \in ErrorBodies}

SearchResult(q, p) == [id |-> p.id, score |-> CosineScore(q, p.vector), payload |-> p.payload]

\* the rankings of the points ps for the query q: the min(limit, |ps|) most
\* similar points, most similar first, ties in any order
Rankings(ps, q, limit) ==
  LET n == IF Cardinality(ps) < limit THEN Cardinality(ps) ELSE limit
  IN { [k \in 1..n |-> SearchResult(q, f[k])] :
         f \in { g \in [1..n -> ps] :
                   /\ \A j, k \in 1..n : j < k =>
                        /\ g[j] # g[k]
                        /\ CosineScore(q, g[j].vector) >= CosineScore(q, g[k].vector)
                   /\ \A p \in ps : (\A k \in 1..n : g[k] # p) =>
                        \A k \in 1..n :
                          CosineScore(q, g[k].vector) >= CosineScore(q, p.vector) } }

\* POST /collections/{name}/points/search.  The collections this server
\* creates have one unnamed vector (client.ts:43-46), so a search that names
\* a vector is refused.  A success body may lack the result key.
RemoteSearch(cols, request) ==
  LET name == request.endpoint[2]
      named == DOMAIN request.body.vector = {"name", "vector"}
      q == IF named THEN request.body.vector.vector ELSE request.body.vector.array
  IN (IF name \notin DOMAIN cols
      THEN {Answer(HttpResponse(404, [NoBody EXCEPT !.status_error = "Not found"]), cols)}
      ELSE IF named
      THEN {Answer(HttpResponse(400, [NoBody EXCEPT !.status_error = "Wrong input: Not existing vector name error"]), cols)}
      ELSE IF Len(q) # cols[name].size
      THEN {Answer(HttpResponse(400, [NoBody EXCEPT !.status_error = "Wrong input: Vector dimension error"]), cols)}
      ELSE {Answer(HttpResponse(200, [NoBody EXCEPT !.hasResult = TRUE, !.result = r]), cols) :
              r \in Rankings(cols[name].points, q, request.body.limit)}
           \cup {Answer(HttpResponse(200, NoBody), cols)})
     \cup TransportFailures(cols)
     \cup {Answer(HttpResponse(400, b), cols) : b \in ErrorBodies}

\* JSON.stringify(info.result, null, 2) of a collection's metadata
StringifyCollectionInfo(col) ==
  "{\"status\":\"green\",\"points_count\":" \o IntToString(Cardinality(col.points))
    \o ",\"config\":{\"params\":{\"vectors\":{\"size\":" \o IntToString(col.size)
    \o ",\"distance\":\"Cosine\"}}}}"

\* GET /collections/{name}
RemoteInfo(cols, request) ==
  LET name == request.endpoint[2]
  IN (IF name \notin DOMAIN cols
      THEN {Answer(HttpResponse(404, [NoBody EXCEPT !.status_error = "Not found"]), cols)}
      ELSE {Answer(HttpResponse(200, [NoBody EXCEPT !.hasResult = TRUE,
                     !.result = <<StringifyCollectionInfo(cols[name])>>]), cols)})
     \cup {Answer(FetchRejected, cols),
           Answer(HttpResponse(500, [NoBody EXCEPT !.parseable = FALSE]), cols)}

\* the points of ps in some order
RECURSIVE SetToSeq(_)
SetToSeq(ps) ==
  IF ps = {} THEN <<>>
  ELSE LET p == CHOOSE x \in ps : TRUE IN <<p>> \o SetToSeq(ps \ {p})

\* POST /collections/{name}/points/scroll.  The sampled points are found
\* under result.points; the handler reads result.result (server.ts:334-336),
\* and the model lets the store answer with either key.
RemoteScroll(cols, request) ==
  LET name == request.endpoint[2]
      sample == LET all == SetToSeq(cols[name].points)
                IN IF Len(all) <= request.body.limit THEN all
                   ELSE SubSeq(all, 1, request.body.limit)
  IN (IF name \notin DOMAIN cols
      THEN {Answer(HttpResponse(404, [NoBody EXCEPT !.status_error = "Not found"]), cols)}
      ELSE {Answer(HttpResponse(200, [NoBody EXCEPT !.hasResult = TRUE, !.nested = k,
                     !.result = sample]), cols) : k \in {"points", "result"}})
     \cup {Answer(FetchRejected, cols),
           Answer(HttpResponse(500, [NoBody EXCEPT !.parseable = FALSE]), cols)}

-----------------------------------------------------------------------------
\* src/src/server.ts

NoError == [threw |-> FALSE, msg |-> <<>>]
NoResult == [content |-> <<>>, isError |-> FALSE]
NoLocals ==
  [collectionName |-> Undefined, embedding |-> <<>>, pointId |-> "", results |-> <<>>,
   info |-> NoBody]
NoCall ==
  [tool |-> "", text |-> "", metadata |-> Undefined,
   collection_name |-> Undefined, vector_name |-> Undefined]

\* the arguments the dispatcher may hand to the three tool handlers
StoreCalls ==
  { [NoCall EXCEPT !.tool = "store", !.text = "x", !.metadata = m, !.collection_name = c] :
      m \in Metadatas, c \in ArgCollectionNames }
FindCalls ==
  { [NoCall EXCEPT !.tool = "find", !.text = "x", !.vector_name = v, !.collection_name = c] :
      v \in ArgVectorNames, c \in ArgCollectionNames }
DebugCalls ==
  { [NoCall EXCEPT !.tool = "debug", !.collection_name = c] : c \in ArgCollectionNames }

\* a CallToolResult of one text block per text; no handler sets isError
ToolResult(texts) == [content |-> texts, isError |-> FALSE]

\* server.ts:90-99, 134-143, 173-182  the catch of the tool handlers
ToolError(msg) == ToolResult(<< <<"Error: ">> \o msg >>)

\* server.ts:87, 130, 170  the collection_name the tool handler passes on
HandlerCollectionName(dflt, args) == Or(dflt, args.collection_name)

\* the resolution with the bug of falling back to a built-in collection name
ResolveCollectionNameWithFallback(dflt, args) ==
  Or(Or(HandlerCollectionName(dflt, args), dflt), "default")

\* server.ts:193, 245, 305  const collectionName = args.collection_name || this.defaultCollection
ResolveCollectionName(dflt, args) == Or(HandlerCollectionName(dflt, args), dflt)

CollectionNameRequired == <<"Collection name is required">>

\* server.ts:199-202, 251-254  the request to the embedding provider
embeddingsCreateRequest(text) ==
  [op |-> "embed", method |-> "POST", endpoint |-> <<"/embeddings">>,
   body |-> [input |-> text]]

\* GET /collections/{name}  (server.ts:312-314)
infoRequest(collectionName) ==
  [op |-> "info", method |-> "GET", endpoint |-> <<"/collections/", collectionName>>,
   body |-> [empty |-> TRUE]]

\* POST /collections/{name}/points/scroll  (server.ts:318-328)
scrollRequest(collectionName) ==
  [op |-> "scroll", method |-> "POST",
   endpoint |-> <<"/collections/", collectionName, "/points/scroll">>,
   body |-> [limit |-> 5, with_payload |-> TRUE, with_vector |-> FALSE]]

\* server.ts:213-220  the payload of the stored point
StorePayload(args, t) ==
  [information |-> args.text, stored_at |-> ToISOString(t),
   metadata |-> IF Truthy(args.metadata) THEN args.metadata ELSE Undefined]

\* server.ts:230-237  the confirmation of a store
StoreConfirmation(collectionName, pointId) ==
  ToolResult(<< <<"Information stored successfully in collection '", collectionName,
                  "' with ID: ", pointId>> >>)

\* server.ts:278-292  the text of the result of rank k
FormatResult(r, k, dbg) ==
  <<"Result ", IntToString(k), " (Score: ", ToFixed4(r.score), "):\n">>
    \o (IF dbg THEN <<"Debug - Payload keys: ", PayloadKeys(r.payload), "\n">> ELSE <<>>)
    \o <<"Detail: ", StringifyPayload(r.payload), "\n">>

\* the result of a find with the bug of merging the results into one block
FindResultMerged(results, query, dbg) ==
  IF Len(results) = 0
  THEN ToolResult(<< <<"No relevant information found for query: \"", query, "\"">> >>)
  ELSE ToolResult(<< FormatResult(results[1], 1, dbg)
                     \o (IF Len(results) > 1 THEN FormatResult(results[2], 2, dbg)
                         ELSE <<>>) >>)

\* server.ts:266-299  the result of a find, from the results of the search
FindResult(results, query, dbg) ==
  IF Len(results) = 0
  THEN ToolResult(<< <<"No relevant information found for query: \"", query, "\"">> >>)
  ELSE ToolResult([k \in 1..Len(results) |-> FormatResult(results[k], k, dbg)])

RECURSIVE DebugPoints(_, _)
\* server.ts:337-341  the rendering of the sampled points, from index k on
DebugPoints(points, k) ==
  IF k > Len(points) THEN <<>>
  ELSE <<"\n--- Point ", IntToString(k), " (ID: ", points[k].id, ") ---\n",
         "Payload keys: ", PayloadKeys(points[k].payload), "\n",
         "Payload: ", StringifyPayload(points[k].payload), "\n">>
       \o DebugPoints(points, k + 1)

\* server.ts:332-351  the text block of a debug, from the two parsed bodies
DebugResult(collectionName, info, sampleData) ==
  LET sample == IF sampleData.hasResult /\ sampleData.nested = "result"
                THEN sampleData.result ELSE <<>>
  IN ToolResult(<<
       <<"Collection Info for \"", collectionName, "\":\n",
         IF info.hasResult THEN info.result[1] ELSE "undefined",
         "\n\nSample Data (first ", IntToString(Len(sample)), " points):\n">>
       \o DebugPoints(sample, 1) >>)

\* server.ts:352-361  the catch of handleDebug
DebugError(msg) == ToolResult(<< <<"Debug error: ">> \o msg >>)

-----------------------------------------------------------------------------
\* The state machine.

Init ==
  /\ defaultCollection \in DefaultCollections
  /\ now = 1
  /\ collections \in {NoCollections, OldCollections}
  /\ pc = [i \in Invocations |-> "idle"]
  /\ call = [i \in Invocations |-> NoCall]
  /\ loc = [i \in Invocations |-> NoLocals]
  /\ log = [i \in Invocations |-> <<>>]
  /\ responses = [i \in Invocations |-> <<>>]
  /\ caught = [i \in Invocations |-> NoError]
  /\ result = [i \in Invocations |-> NoResult]

Config == <<defaultCollection>>

LastRequest(i) == log[i][Len(log[i])]

\* the invocation i ends: its handler threw err (caught by the tool
\* handler), or returned res
Throws(i, err) ==
  /\ pc' = [pc EXCEPT ![i] = "done"]
  /\ caught' = [caught EXCEPT ![i] = [threw |-> TRUE, msg |-> err]]
  /\ result' = [result EXCEPT ![i] = ToolError(err)]

Returns(i, res) ==
  /\ pc' = [pc EXCEPT ![i] = "done"]
  /\ result' = [result EXCEPT ![i] = res]
  /\ UNCHANGED caught

\* the invocation i issues the request and suspends at the await named by at
Awaits(i, request, at) ==
  /\ pc' = [pc EXCEPT ![i] = at]
  /\ log' = [log EXCEPT ![i] = Append(@, request)]
  /\ UNCHANGED <<caught, result>>

\* server.ts:82-89, 126-133, 167-172 and 193-202, 245-254, 305-314: a tool
\* handler is called; it resolves the collection name and issues its first
\* request
Invoke(i, args) ==
  /\ pc[i] = "idle"
  /\ call' = [call EXCEPT ![i] = args]
  /\ LET collectionName == ResolveCollectionName(defaultCollection, args)
     IN IF ~Truthy(collectionName)
        THEN /\ Throws(i, CollectionNameRequired)
             /\ UNCHANGED <<loc, log>>
        ELSE /\ loc' = [loc EXCEPT ![i].collectionName = collectionName]
             /\ IF args.tool = "debug"
                THEN Awaits(i, infoRequest(collectionName), "info")
                ELSE Awaits(i, embeddingsCreateRequest(args.text), "embed")
  /\ UNCHANGED <<Config, now, collections, responses>>

qdrantStore(i) == \E args \in StoreCalls : Invoke(i, args)
qdrantFind(i) == \E args \in FindCalls : Invoke(i, args)
qdrantDebug(i) == \E args \in DebugCalls : Invoke(i, args)

\* server.ts:199-207  handleStore: the embedding arrives
handleStoreEmbedded(i) ==
  /\ pc[i] = "embed" /\ call[i].tool = "store"
  /\ \E e \in EmbeddingAnswers :
       IF e.threw
       THEN Throws(i, e.msg) /\ UNCHANGED <<loc, log>>
       ELSE /\ loc' = [loc EXCEPT ![i].embedding = e.value]
            /\ Awaits(i, createCollectionRequest(loc[i].collectionName, Len(e.value)),
                      "create")
  /\ UNCHANGED <<Config, now, collections, call, responses>>

\* handleStore with the bug of retrying a failed createCollection once
handleStoreCreatedRetrying(i) ==
  /\ pc[i] = "create"
  /\ \E a \in RemoteCreate(collections, LastRequest(i)) :
       /\ collections' = a.collections
       /\ responses' = [responses EXCEPT ![i] = Append(@, a.response)]
       /\ LET o == createCollection(a.response)
              pointId == DateNowToString(now)
          IN IF o.threw /\ Len(log[i]) < 3
             THEN Awaits(i, LastRequest(i), "create") /\ UNCHANGED loc
             ELSE IF o.threw
             THEN Throws(i, o.msg) /\ UNCHANGED <<loc, log>>
             ELSE /\ loc' = [loc EXCEPT ![i].pointId = pointId]
                  /\ Awaits(i, upsertPointsRequest(loc[i].collectionName,
                               << [id |-> pointId, vector |-> loc[i].embedding,
                                   payload |-> StorePayload(call[i], now)] >>),
                            "upsert")
  /\ UNCHANGED <<Config, now, call>>

\* server.ts:207-228  handleStore: createCollection settles
handleStoreCreated(i) ==
  /\ pc[i] = "create"
  /\ \E a \in RemoteCreate(collections, LastRequest(i)) :
       /\ collections' = a.collections
       /\ responses' = [responses EXCEPT ![i] = Append(@, a.response)]
       /\ LET o == createCollection(a.response)
              pointId == DateNowToString(now)
          IN IF o.threw
             THEN Throws(i, o.msg) /\ UNCHANGED <<loc, log>>
             ELSE /\ loc' = [loc EXCEPT ![i].pointId = pointId]
                  /\ Awaits(i, upsertPointsRequest(loc[i].collectionName,
                               << [id |-> pointId, vector |-> loc[i].embedding,
                                   payload |-> StorePayload(call[i], now)] >>),
                            "upsert")
  /\ UNCHANGED <<Config, now, call>>

\* server.ts:222-237  handleStore: upsertPoints settles
handleStoreUpserted(i) ==
  /\ pc[i] = "upsert"
  /\ \E a \in RemoteUpsert(collections, LastRequest(i)) :
       /\ collections' = a.collections
       /\ responses' = [responses EXCEPT ![i] = Append(@, a.response)]
       /\ LET o == upsertPoints(loc[i].collectionName, a.response)
          IN IF o.threw
             THEN Throws(i, o.msg)
             ELSE Returns(i, StoreConfirmation(loc[i].collectionName, loc[i].pointId))
  /\ UNCHANGED <<Config, now, call, loc, log>>

\* server.ts:251-264  handleFind: the embedding arrives
handleFindEmbedded(i) ==
  /\ pc[i] = "embed" /\ call[i].tool = "find"
  /\ \E e \in EmbeddingAnswers :
       IF e.threw
       THEN Throws(i, e.msg) /\ UNCHANGED <<loc, log>>
       ELSE /\ loc' = [loc EXCEPT ![i].embedding = e.value]
            /\ Awaits(i, searchPointsRequest(loc[i].collectionName, e.value,
                                             SearchLimit, call[i].vector_name),
                      "search")
  /\ UNCHANGED <<Config, now, collections, call, responses>>

\* server.ts:259-299  handleFind: searchPoints settles
handleFindSearched(i) ==
  /\ pc[i] = "search"
  /\ \E a \in RemoteSearch(collections, LastRequest(i)) :
       /\ collections' = a.collections
       /\ responses' = [responses EXCEPT ![i] = Append(@, a.response)]
       /\ LET o == searchPoints(loc[i].collectionName, loc[i].embedding, SearchLimit,
                                call[i].vector_name, a.response)
          IN IF o.threw
             THEN Throws(i, o.msg) /\ UNCHANGED loc
             ELSE /\ loc' = [loc EXCEPT ![i].results = o.value]
                  /\ \E dbg \in BOOLEAN :   \* server.ts:285  NODE_ENV, DEBUG_QDRANT
                       Returns(i, FindResult(o.value, call[i].text, dbg))
  /\ UNCHANGED <<Config, now, call, log>>

\* server.ts:312-328  handleDebug: the metadata request settles
handleDebugInfo(i) ==
  /\ pc[i] = "info"
  /\ \E a \in RemoteInfo(collections, LastRequest(i)) :
       /\ collections' = a.collections
       /\ responses' = [responses EXCEPT ![i] = Append(@, a.response)]
       /\ IF a.response.rejected
          THEN Returns(i, DebugError(FetchFailedMessage)) /\ UNCHANGED <<loc, log>>
          ELSE IF ~a.response.body.parseable
          THEN Returns(i, DebugError(JsonParseMessage)) /\ UNCHANGED <<loc, log>>
          ELSE /\ loc' = [loc EXCEPT ![i].info = a.response.body]
               /\ Awaits(i, scrollRequest(loc[i].collectionName), "scroll")
  /\ UNCHANGED <<Config, now, call>>

\* server.ts:318-361  handleDebug: the sampling request settles
handleDebugScrolled(i) ==
  /\ pc[i] = "scroll"
  /\ \E a \in RemoteScroll(collections, LastRequest(i)) :
       /\ collections' = a.collections
       /\ responses' = [responses EXCEPT ![i] = Append(@, a.response)]
       /\ IF a.response.rejected
          THEN Returns(i, DebugError(FetchFailedMessage))
          ELSE IF ~a.response.body.parseable
          THEN Returns(i, DebugError(JsonParseMessage))
          ELSE Returns(i, DebugResult(loc[i].collectionName, loc[i].info,
                                      a.response.body))
  /\ UNCHANGED <<Config, now, call, loc, log>>

\* a millisecond passes
Tick ==
  /\ now < MaxClock
  /\ now' = now + 1
  /\ UNCHANGED <<Config, collections, pc, call, loc, log, responses, caught, result>>

Next ==
  \/ \E i \in Invocations : qdrantStore(i)
  \/ \E i \in Invocations : qdrantFind(i)
  \/ \E i \in Invocations : qdrantDebug(i)
  \/ \E i \in Invocations : handleStoreEmbedded(i)
  \/ \E i \in Invocations : handleStoreCreated(i)
  \/ \E i \in Invocations : handleStoreUpserted(i)
  \/ \E i \in Invocations : handleFindEmbedded(i)
  \/ \E i \in Invocations : handleFindSearched(i)
  \/ \E i \in Invocations : handleDebugInfo(i)
  \/ \E i \in Invocations : handleDebugScrolled(i)
  \/ Tick

Spec == Init /\ [][Next]_vars

TypeOK ==
  /\ now \in 1..MaxClock
  /\ DOMAIN collections \subseteq {"c1", "c2"}
  /\ \A i \in Invocations :
       pc[i] \in {"idle", "embed", "create", "upsert", "search", "info", "scroll", "done"}

-----------------------------------------------------------------------------
\* Properties.

IsStore(i) == call[i].tool = "store"
IsFind(i) == call[i].tool = "find"
IsDebug(i) == call[i].tool = "debug"
Done(i) == pc[i] = "done"

\* the operations of the requests the invocation i has issued, in order
Ops(i) == [k \in DOMAIN log[i] |-> log[i][k].op]

IsPrefix(s, t) == Len(s) <= Len(t) /\ \A k \in DOMAIN s : s[k] = t[k]

\* C1: a store issues its remote calls in the order embed, create-collection,
\* upsert, all on its collection C; C exists in the remote store from the
\* moment the upsert is issued; and a store that completes returns one text
\* that contains C and the id of the point it wrote.
StoreProvisionsThenWrites ==
  \A i \in Invocations : IsStore(i) =>
    LET C == loc[i].collectionName IN
    /\ IsPrefix(Ops(i), <<"embed", "create", "upsert">>)
    /\ Len(log[i]) >= 2 => log[i][2].endpoint = <<"/collections/", C>>
    /\ Len(log[i]) >= 3 =>
         /\ C \in DOMAIN collections
         /\ log[i][3].endpoint = <<"/collections/", C, "/points">>
         /\ Len(responses[i]) >= 1
    /\ (Done(i) /\ ~caught[i].threw) =>
         /\ Len(log[i]) = 3
         /\ Len(result[i].content) = 1
         /\ Contains(result[i].content[1], C)
         /\ Contains(result[i].content[1], log[i][3].body.points[1].id)
         /\ \E p \in collections[C].points : p.id = log[i][3].body.points[1].id

\* a store on a collection that did not exist has created it, written its
\* point and returned its confirmation
StoreProvisionsThenWritesWitness ==
  \E i \in Invocations :
    /\ IsStore(i) /\ Done(i) /\ ~caught[i].threw
    /\ responses[i][1].status = 200
    /\ loc[i].collectionName \in DOMAIN collections


Invoked(i) == call[i].tool # ""

\* C2: an invocation of store, find or debug without a collection name, when
\* no default collection is configured, fails with the message "Collection
\* name is required" and has issued no remote request.
CollectionNameIsRequired ==
  \A i \in Invocations :
    (Invoked(i) /\ ~Truthy(call[i].collection_name) /\ ~Truthy(defaultCollection)) =>
      /\ Done(i)
      /\ caught[i].threw
      /\ caught[i].msg = CollectionNameRequired
      /\ Len(log[i]) = 0
      /\ Len(responses[i]) = 0

\* a store and a debug, both without any collection name, have failed
CollectionNameIsRequiredWitness ==
  \E i, j \in Invocations :
    /\ IsStore(i) /\ IsDebug(j)
    /\ ~Truthy(call[i].collection_name) /\ ~Truthy(call[j].collection_name)
    /\ ~Truthy(defaultCollection)
    /\ caught[i].threw /\ caught[j].threw

\* the first response of the vector store to the invocation i
FirstResponse(i) == responses[i][1]

\* C3: createCollection returns normally when the store answers with a
\* success status or with 409; on every other status it throws an error whose
\* message contains the status text of the answer.
CreateCollectionStatusPolicy ==
  \A i \in Invocations :
    (IsStore(i) /\ Len(responses[i]) >= 1 /\ ~FirstResponse(i).rejected) =>
      IF Ok(FirstResponse(i).status) \/ FirstResponse(i).status = 409
      THEN /\ Len(log[i]) = 3
           /\ caught[i].threw => Len(responses[i]) = 2
      ELSE /\ Done(i)
           /\ caught[i].threw
           /\ Contains(caught[i].msg, StatusText(FirstResponse(i).status))
           /\ Len(log[i]) = 2

\* one createCollection was answered 409 and returned, another was answered
\* 400 and threw
CreateCollectionStatusPolicyWitness ==
  \E i, j \in Invocations :
    /\ IsStore(i) /\ IsStore(j)
    /\ Len(responses[i]) >= 1 /\ FirstResponse(i).status = 409 /\ Len(log[i]) = 3
    /\ Len(responses[j]) >= 1 /\ FirstResponse(j).status = 400 /\ caught[j].threw

\* C4: against a store that creates an absent collection (200) and reports a
\* conflict for an existing one (409), createCollection returns normally
\* every time, the collection exists afterwards, and its configuration stays
\* the one requested by the call that created it.
EnsureCollectionIdempotent ==
  \A i \in Invocations :
    (IsStore(i) /\ Len(responses[i]) >= 1 /\ ~FirstResponse(i).rejected
       /\ FirstResponse(i).status \in {200, 409}) =>
      /\ Len(log[i]) = 3
      /\ loc[i].collectionName \in DOMAIN collections
      /\ FirstResponse(i).status = 200 =>
           collections[loc[i].collectionName].size = log[i][2].body.vectors.size

\* createCollection(C, D) was called twice: the first call created C, the
\* second met the conflict, both returned and C has the dimensionality D
EnsureCollectionIdempotentWitness ==
  \E i, j \in Invocations :
    /\ IsStore(i) /\ IsStore(j)
    /\ Len(responses[i]) >= 1 /\ FirstResponse(i).status = 200
    /\ Len(responses[j]) >= 1 /\ FirstResponse(j).status = 409
    /\ log[i][2] = log[j][2]
    /\ Len(log[i]) = 3 /\ Len(log[j]) = 3
    /\ collections[loc[i].collectionName].size = log[i][2].body.vectors.size

\* C5: when a sub-call of store or find fails, the tool invocation ends as a
\* failed invocation whose message is the text of the underlying error.
SubCallFailureFailsInvocation ==
  \A i \in Invocations :
    ((IsStore(i) \/ IsFind(i)) /\ Done(i) /\ caught[i].threw /\ Len(log[i]) > 0) =>
      /\ result[i].isError
      /\ result[i].content = <<caught[i].msg>>

\* a response of the inspection of the invocation i reports a failure
InspectionFailed(i) ==
  \E k \in DOMAIN responses[i] :
    \/ responses[i][k].rejected
    \/ ~Ok(responses[i][k].status)
    \/ ~responses[i][k].body.parseable

\* C6: a debug with a resolved collection name returns normally with one
\* text block, and that text is a debug error message whenever the
\* inspection failed (transport failure, non-success status, unparseable body).
DebugReportsEveryFailure ==
  \A i \in Invocations :
    (IsDebug(i) /\ Done(i) /\ Truthy(loc[i].collectionName)) =>
      /\ ~caught[i].threw
      /\ Len(result[i].content) = 1
      /\ InspectionFailed(i) => result[i].content[1][1] = "Debug error: "

\* C7: the effective collection is the caller's collection name whenever the
\* caller gave one, and the configured default only when the caller gave none.
ExplicitCollectionWins ==
  \A i \in Invocations :
    Invoked(i) =>
      /\ Truthy(call[i].collection_name) =>
           loc[i].collectionName = call[i].collection_name
      /\ (~Truthy(call[i].collection_name) /\ Truthy(defaultCollection)) =>
           loc[i].collectionName = defaultCollection

\* the results the vector store sent to the find i
RemoteResults(i) ==
  IF FirstResponse(i).body.hasResult THEN FirstResponse(i).body.result ELSE <<>>

\* C8: a find whose search yields no result returns exactly one message, the
\* one saying that nothing relevant was found for the query; otherwise it
\* returns one message per result, the k-th carrying the rank k and the
\* payload of the k-th result in the order of the remote store.
FindOneMessagePerResult ==
  \A i \in Invocations :
    (IsFind(i) /\ Done(i) /\ ~caught[i].threw) =>
      LET rs == RemoteResults(i)
          msgs == result[i].content
      IN IF Len(rs) = 0
         THEN /\ Len(msgs) = 1
              /\ msgs[1][1] = "No relevant information found for query: \""
              /\ Contains(msgs[1], call[i].text)
         ELSE /\ Len(msgs) = Len(rs)
              /\ \A k \in DOMAIN rs :
                   /\ msgs[k][1] = "Result "
                   /\ msgs[k][2] = IntToString(k)
                   /\ Contains(msgs[k], StringifyPayload(rs[k].payload))

\* one find has returned the single message of an empty search, another has
\* returned the messages of two results or more with different payloads
FindOneMessagePerResultWitness ==
  \E i, j \in Invocations :
    /\ IsFind(i) /\ Done(i) /\ ~caught[i].threw /\ Len(RemoteResults(i)) = 0
    /\ IsFind(j) /\ Done(j) /\ ~caught[j].threw /\ Len(RemoteResults(j)) >= 2
    /\ RemoteResults(j)[1].payload # RemoteResults(j)[2].payload
    /\ Len(result[j].content) >= 2

\* C9: on a success response searchPoints returns the result sequence of the
\* response unchanged, and the empty sequence, without throwing, when the
\* result field is empty or absent.
SearchPointsReturnsRemoteResults ==
  \A i \in Invocations :
    (IsFind(i) /\ Len(responses[i]) = 1 /\ ~FirstResponse(i).rejected
       /\ Ok(FirstResponse(i).status) /\ FirstResponse(i).body.parseable) =>
      /\ ~caught[i].threw
      /\ Done(i)
      /\ loc[i].results = RemoteResults(i)

\* one search got a success body without a result field and returned the
\* empty sequence, another returned the two results or more of its response
SearchPointsReturnsRemoteResultsWitness ==
  \E i, j \in Invocations :
    /\ IsFind(i) /\ Done(i) /\ Len(responses[i]) = 1
    /\ Ok(FirstResponse(i).status) /\ ~FirstResponse(i).body.hasResult
    /\ ~caught[i].threw /\ loc[i].results = <<>>
    /\ IsFind(j) /\ Done(j) /\ Len(responses[j]) = 1
    /\ Ok(FirstResponse(j).status) /\ FirstResponse(j).body.hasResult
    /\ Len(loc[j].results) >= 2

\* C10: a find that reaches its search has issued exactly one request to the
\* vector store: a POST to the search endpoint of its collection, with the
\* limit and with_payload = true; the vector field is the plain query vector
\* when no vector name is given and {name, vector} when one is given.
SearchRequestShape ==
  \A i \in Invocations :
    (IsFind(i) /\ Len(log[i]) >= 2) =>
      /\ Len(log[i]) = 2
      /\ log[i][2].op = "search"
      /\ log[i][2].method = "POST"
      /\ log[i][2].endpoint = <<"/collections/", loc[i].collectionName, "/points/search">>
      /\ log[i][2].body.limit = SearchLimit
      /\ log[i][2].body.with_payload = TRUE
      /\ log[i][2].body.vector =
           IF Truthy(call[i].vector_name)
           THEN [name |-> call[i].vector_name, vector |-> loc[i].embedding]
           ELSE [array |-> loc[i].embedding]

\* two searches on the same collection, one with a vector name and one
\* without, have reached the same endpoint
SearchRequestShapeWitness ==
  \E i, j \in Invocations :
    /\ IsFind(i) /\ Len(log[i]) = 2 /\ call[i].vector_name = "dense"
    /\ IsFind(j) /\ Len(log[j]) = 2 /\ call[j].vector_name = Undefined
    /\ log[i][2].endpoint = log[j][2].endpoint
    /\ Len(responses[i]) = 1 /\ Len(responses[j]) = 1


\* the number of requests of the operation op the invocation i has issued
Attempts(i, op) == Cardinality({k \in DOMAIN log[i] : log[i][k].op = op})

\* the response r reports a failure of the request
FailedResponse(r) == r.rejected \/ ~Ok(r.status)

\* C11: a store or a find attempts each remote step (embed, create-collection,
\* upsert, search) at most once, and a failed step is the last one issued:
\* after a failed embedding there is no vector-store request, after a failed
\* collection creation there is no upsert.
NoRetryNoStepAfterFailure ==
  \A i \in Invocations :
    (IsStore(i) \/ IsFind(i)) =>
      /\ \A op \in {"embed", "create", "upsert", "search"} : Attempts(i, op) <= 1
      /\ (caught[i].threw /\ Len(log[i]) >= 1) =>
           /\ Done(i)
           /\ Len(responses[i]) = Len(log[i]) - 1
      /\ caught[i].msg = <<"Connection error.">> =>
           /\ Len(log[i]) = 1
           /\ Len(responses[i]) = 0
      /\ (IsStore(i) /\ Len(responses[i]) >= 1 /\ FailedResponse(FirstResponse(i))
            /\ FirstResponse(i).status # 409) =>
           /\ Done(i) /\ caught[i].threw
           /\ Attempts(i, "upsert") = 0
      /\ \A k \in DOMAIN responses[i] :
           (FailedResponse(responses[i][k])
              /\ ~(IsStore(i) /\ k = 1 /\ responses[i][k].status = 409)) =>
             /\ k = Len(responses[i])
             /\ Len(log[i]) = k + 1
             /\ Done(i) /\ caught[i].threw

\* a find has failed at its embedding without any vector-store request, and
\* a store has failed at its collection creation without any upsert
NoRetryNoStepAfterFailureWitness ==
  \E i, j \in Invocations :
    /\ IsFind(i) /\ Done(i) /\ caught[i].msg = <<"Connection error.">>
    /\ Ops(i) = <<"embed">>
    /\ IsStore(j) /\ Done(j) /\ caught[j].threw
    /\ Len(responses[j]) = 1 /\ FirstResponse(j).status = 500
    /\ Ops(j) = <<"embed", "create">>


Confirmed(i) == IsStore(i) /\ Done(i) /\ ~caught[i].threw

\* the point the store i has sent in its upsert
WrittenPoint(i) == log[i][3].body.points[1]

\* C12: every store that returns a confirmation leaves its own point in its
\* collection under its own id, whatever the other stores do: two confirmed
\* stores to one collection have different ids and both points are there.
ConfirmedStoresKeepTheirPoints ==
  \A i \in Invocations :
    Confirmed(i) =>
      /\ WrittenPoint(i) \in collections[loc[i].collectionName].points
      /\ \A j \in Invocations \ {i} :
           (Confirmed(j) /\ loc[j].collectionName = loc[i].collectionName) =>
             WrittenPoint(j).id # WrittenPoint(i).id

\* the detail the error message of a non-success response r must carry
ExpectedDetail(r) ==
  IF ~r.body.parseable THEN StatusText(r.status)
  ELSE IF Truthy(r.body.error_message) THEN r.body.error_message
  ELSE IF Truthy(r.body.status_error) THEN r.body.status_error
  ELSE StringifyBody(r.body)

\* C13: on a non-success response upsertPoints and searchPoints throw a
\* message whose detail is the body's error message if it has one, else its
\* status error if it has one, else the serialized body, and the status text
\* of the response when the body cannot be parsed.
ErrorDetailPriority ==
  \A i \in Invocations :
    /\ (IsStore(i) /\ Len(responses[i]) = 2 /\ ~responses[i][2].rejected
          /\ ~Ok(responses[i][2].status)) =>
         /\ caught[i].threw
         /\ caught[i].msg = <<"Failed to upsert points in collection '",
                              loc[i].collectionName, "': ",
                              ExpectedDetail(responses[i][2])>>
    /\ (IsFind(i) /\ Len(responses[i]) = 1 /\ ~FirstResponse(i).rejected
          /\ ~Ok(FirstResponse(i).status)) =>
         /\ caught[i].threw
         /\ caught[i].msg[1] = "Failed to search points in collection '"
         /\ caught[i].msg[2] = loc[i].collectionName
         /\ caught[i].msg[4] = ExpectedDetail(FirstResponse(i))

\* an upsert has failed on a body with both fields and reports the error
\* message; a search has failed on an unparseable body and reports the
\* status text
ErrorDetailPriorityWitness ==
  \E i, j \in Invocations :
    /\ IsStore(i) /\ Len(responses[i]) = 2 /\ ~Ok(responses[i][2].status)
    /\ responses[i][2].body.error_message = "boom"
    /\ responses[i][2].body.status_error = "Not found"
    /\ caught[i].msg[4] = "boom"
    /\ IsFind(j) /\ Len(responses[j]) = 1 /\ ~FirstResponse(j).rejected
    /\ ~FirstResponse(j).body.parseable
    /\ caught[j].msg[4] = "Bad Request"

\* C14: the error message of a failed search contains the hint naming
\* "dense" and "sparse" exactly when the error detail says that the
\* collection requires a specified vector name and the search was issued
\* without a vector name; no other message contains the hint.
HintOnlyWithoutVectorName ==
  \A i \in Invocations :
    Contains(caught[i].msg, VectorNameHint) <=>
      /\ IsFind(i) /\ Len(responses[i]) = 1 /\ ~FirstResponse(i).rejected
      /\ ~Ok(FirstResponse(i).status)
      /\ IncludesVectorNameRequired(ExpectedDetail(FirstResponse(i)))
      /\ ~Truthy(call[i].vector_name)

\* the same named-vector error has reached a search without a vector name,
\* which carries the hint, and a search with one, which does not
HintOnlyWithoutVectorNameWitness ==
  \E i, j \in Invocations :
    /\ IsFind(i) /\ IsFind(j)
    /\ Len(responses[i]) = 1 /\ Len(responses[j]) = 1
    /\ FirstResponse(i) = FirstResponse(j)
    /\ FirstResponse(i).body.status_error = VectorNameRequired
    /\ call[i].vector_name = Undefined /\ call[j].vector_name = "dense"
    /\ Contains(caught[i].msg, VectorNameHint)
    /\ caught[j].threw /\ ~Contains(caught[j].msg, VectorNameHint)

\* the vector fields of a collection created with the body b: the
\* configuration {size, distance} declares the single unnamed field
VectorFields(b) == IF DOMAIN b.vectors = {"size", "distance"} THEN {""} ELSE {}

\* the vector field a search body addresses
TargetField(b) == IF DOMAIN b.vector = {"name", "vector"} THEN b.vector.name ELSE ""

\* the answer r is a failure of the transport or of the server, not the
\* store's verdict on the request
Outage(r) == r.rejected \/ r.status = 500 \/ (r.status = 400 /\ r.body \in ErrorBodies)

\* C15: when a store has provisioned a collection and returned its
\* confirmation, a find on that collection with the default vector_name
\* "dense", answered by the store without an outage, addresses a vector field
\* the collection has and returns messages that include the stored point.
StoreThenFindRoundTrip ==
  [][\A i, j \in Invocations :
       (/\ Confirmed(i) /\ FirstResponse(i).status = 200
        /\ WrittenPoint(i) \in collections[loc[i].collectionName].points
        /\ IsFind(j) /\ call[j].vector_name = "dense"
        /\ loc[j].collectionName = loc[i].collectionName
        /\ pc[j] = "search" /\ pc'[j] = "done"
        /\ ~Outage(responses'[j][1])) =>
         /\ TargetField(log[j][2].body) \in VectorFields(log[i][2].body)
         /\ ~caught'[j].threw
         /\ \E k \in DOMAIN result'[j].content :
              Contains(result'[j].content[k], StringifyPayload(WrittenPoint(i).payload))]_vars

====
